---- MODULE Spec2Model ----
(***************************************************************************)
(* State-machine model of SceneValidator                                   *)
(* (src/tools/scene_validator/scene_validator.py) and of StoryboardGen     *)
(* (src/tools/storyboard_gen/storyboard_gen.py).                           *)
(*                                                                         *)
(* Units.  Normalized bounding-box coordinates of detected objects are     *)
(* held as integer 120ths (0.25 is 30), so that a centre can lie exactly   *)
(* one tenth of the image away from a thirds point; object scores are      *)
(* integer hundredths (0.7 is 70).  Face vertices are the integer pixel    *)
(* coordinates the annotation service returns in bounding_poly.vertices.   *)
(* All arithmetic of the source is then carried out exactly, on integers,  *)
(* by multiplying both sides of each comparison by the common denominator. *)
(* The coordinates and image sizes drawn are ones for which the source's   *)
(* floating-point results are the exact ones.                              *)
(* A validate() call is a sequence of steps (begin, one step per scene,    *)
(* one step per adjacent pair, finish); the program is single-threaded, so *)
(* no other call is enabled between the steps of one validate().           *)
(*                                                                         *)
(* A script text is a sequence of tokens: the two slugline tokens "INT."   *)
(* and "EXT.", the space, the newline, the opening parenthesis and "a",    *)
(* which stands for any other character.  The regular expression and the   *)
(* string methods of _parse_script are carried out on these sequences.     *)
(* The calls of StoryboardGen are single steps.                            *)
(***************************************************************************)
EXTENDS Integers, Sequences, FiniteSets, TLC

VARIABLES
    scenes,        \* self.scenes: scene_id -> record (a function on its key set)
    scene_order,   \* self.scene_order: list of scene ids
    results,       \* self.results: [issues, scene_count]
    use_firebase,  \* self.use_firebase
    world,         \* the files and the annotation service: path -> what they answer
    pc,            \* position inside validate(): "idle" outside of it
    idx,           \* loop index of the running validate() (1-based)
    ret,           \* the last finished call: its name, its arguments, how it ended
    calls,         \* internal calls made so far by the running (or last finished) call, in order
    runs,          \* outcomes of the validate() calls since the scenes last changed (latest two)
    script_text,   \* StoryboardGen: self.script_text
    script_scenes, \* StoryboardGen: self.script_scenes
    frames,        \* StoryboardGen: self.frames
    gen_world,     \* the script file, the answers of the text model, the renderings that fail
    written,       \* the output files: path -> what was written to it
    export_data    \* what the last export_to_timeline_assembler that returned has returned

\* The state StoryboardGen and the output files add to the validator's.
genvars == <<script_text, script_scenes, frames, gen_world, written, export_data>>

vars == <<scenes, scene_order, results, use_firebase, world, pc, idx, ret, calls, runs,
          script_text, script_scenes, frames, gen_world, written, export_data>>

----------------------------------------------------------------------------
(* Input domains *)

SceneIds == {"s1", "s2", "s3"}
ExistingPaths == {"a.jpg", "b.jpg"}
Paths == ExistingPaths \cup {"missing.jpg"}
Timestamps == {"None", "00:01:30"}
Metadatas == {"None", "{}", "take2"}

\* Longest object list and longest face list an annotation response carries.
MaxObjects == 2
MaxFaces == 2

\* The ids used where every argument of add_scene varies.
IngestIds == {"s1", "s2"}

Abs(n) == IF n < 0 THEN -n ELSE n

SeqsUpTo(S, n) == UNION {[1..k -> S] : k \in 0..n}

----------------------------------------------------------------------------
(* Annotation records *)

Vertex(x, y) == [x |-> x, y |-> y]

\* A bounding polygon given by its top-left and bottom-right corners:
\* vertices[0] is top-left and vertices[2] bottom-right, as the source reads them.
Box(x0, y0, x2, y2) == <<Vertex(x0, y0), Vertex(x2, y0), Vertex(x2, y2), Vertex(x0, y2)>>

DetObject(name, score, vertices) == [name |-> name, score |-> score, vertices |-> vertices]

Face(vertices) == [vertices |-> vertices]

\* 'annotations': {} of a freshly added scene
EmptyAnnotations == [present |-> FALSE, objects |-> <<>>, faces |-> <<>>]

\* scene['annotations'].get('objects', [])
GetObjects(scene) == IF scene.annotations.present THEN scene.annotations.objects ELSE <<>>

\* scene['annotations'].get('faces')
GetFaces(scene) == IF scene.annotations.present THEN scene.annotations.faces ELSE <<>>

\* metadata or {}
MetadataOrEmpty(metadata) == IF metadata \in {"None", "{}"} THEN "{}" ELSE metadata

----------------------------------------------------------------------------
(* ValidationIssue: description and suggestion are texts derived from the  *)
(* same ids and names as issue_id and are left out.  issue_id is kept as   *)
(* the tuple of the parts the source joins with "_"; location is <<>> for  *)
(* None and <<x, y>> for {'x': x, 'y': y}.                                 *)

CompositionIssue(scene_id, x, y) ==
    [issue_id |-> <<"comp_thirds", scene_id>>,
     issue_type |-> "Composition Rule of Thirds",
     severity |-> "Low",
     scenes |-> <<scene_id>>,
     location |-> <<x, y>>]

ObjectMissingIssue(scene1_id, scene2_id, name) ==
    [issue_id |-> <<"cont_obj", scene1_id, scene2_id, name>>,
     issue_type |-> "Continuity Object Missing",
     severity |-> "High",
     scenes |-> <<scene1_id, scene2_id>>,
     location |-> <<>>]

CharacterPositionIssue(scene1_id, scene2_id, i) ==
    [issue_id |-> <<"cont_face_pos", scene1_id, scene2_id, i>>,
     issue_type |-> "Continuity Character Position",
     severity |-> "Medium",
     scenes |-> <<scene1_id, scene2_id>>,
     location |-> <<>>]

\* ValidationResults()
NewResults == [issues |-> <<>>, scene_count |-> 0]

----------------------------------------------------------------------------
(* _validate_composition: the rule of thirds *)

\* int(): truncation toward zero of n / d, d > 0
TruncDiv(n, d) == IF n >= 0 THEN n \div d ELSE -((-n) \div d)

\* key of max(): (v[2].x - v[0].x) * (v[2].y - v[0].y), in 1/14400
ObjectArea(obj) ==
    (obj.vertices[3].x - obj.vertices[1].x) * (obj.vertices[3].y - obj.vertices[1].y)

\* Mutant of LargestObject: the last object of maximal area.
LargestObjectLastWins(objects) ==
    LET i == CHOOSE k \in 1..Len(objects) :
                 \A j \in 1..Len(objects) :
                     /\ ObjectArea(objects[j]) <= ObjectArea(objects[k])
                     /\ j > k => ObjectArea(objects[j]) < ObjectArea(objects[k])
    IN objects[i]

\* max(objects, key=...): the first object of maximal area
LargestObject(objects) ==
    LET i == CHOOSE k \in 1..Len(objects) :
                 \A j \in 1..Len(objects) :
                     /\ ObjectArea(objects[j]) <= ObjectArea(objects[k])
                     /\ j < k => ObjectArea(objects[j]) < ObjectArea(objects[k])
    IN objects[i]

\* 240 * center: center = (v[0] + v[2]) / 2 * size, the coordinates being 120ths
Center240(lo, hi, size) == (lo + hi) * size

\* Mutant of NearThird: a centre exactly one tenth away counts as near.
NearThirdInclusive(center240, size, k) == Abs(3 * center240 - 240 * k * size) <= 72 * size

\* abs(center - size*k/3) < size/10, both sides multiplied by 720
NearThird(center240, size, k) == Abs(3 * center240 - 240 * k * size) < 72 * size

\* thirds_points, as the numerators (kx, ky) of (width*kx/3, height*ky/3)
ThirdsPoints == <<<<1, 1>>, <<2, 1>>, <<1, 2>>, <<2, 2>>>>

\* Mutant of CompositionIssues: near_thirds starts out False and the issue is
\* added outside of "if objects", at the origin when there is no subject.
CompositionIssuesUnguarded(scene_id, objects, width, height) ==
    IF objects = <<>> THEN <<CompositionIssue(scene_id, 0, 0)>>
    ELSE LET largest_object == LargestObject(objects)
             cx == Center240(largest_object.vertices[1].x, largest_object.vertices[3].x, width)
             cy == Center240(largest_object.vertices[1].y, largest_object.vertices[3].y, height)
             near_thirds == \E p \in 1..Len(ThirdsPoints) :
                                /\ NearThird(cx, width, ThirdsPoints[p][1])
                                /\ NearThird(cy, height, ThirdsPoints[p][2])
         IN IF near_thirds THEN <<>>
            ELSE <<CompositionIssue(scene_id, TruncDiv(cx, 240), TruncDiv(cy, 240))>>

\* The issues _validate_composition adds for a scene with these objects and image size.
CompositionIssues(scene_id, objects, width, height) ==
    IF objects = <<>> THEN <<>>
    ELSE LET largest_object == LargestObject(objects)
             cx == Center240(largest_object.vertices[1].x, largest_object.vertices[3].x, width)
             cy == Center240(largest_object.vertices[1].y, largest_object.vertices[3].y, height)
             near_thirds == \E p \in 1..Len(ThirdsPoints) :
                                /\ NearThird(cx, width, ThirdsPoints[p][1])
                                /\ NearThird(cy, height, ThirdsPoints[p][2])
         IN IF near_thirds THEN <<>>
            ELSE <<CompositionIssue(scene_id, TruncDiv(cx, 240), TruncDiv(cy, 240))>>

----------------------------------------------------------------------------
(* _compare_scenes: continuity between two scenes *)

\* index of the last object of the list carrying this name
LastIndexOf(objects, name) ==
    CHOOSE i \in 1..Len(objects) :
        /\ objects[i].name = name
        /\ \A j \in (i + 1)..Len(objects) : objects[j].name # name

RECURSIVE DictItemsFrom(_, _)
DictItemsFrom(objects, i) ==
    IF i > Len(objects) THEN <<>>
    ELSE IF \E j \in 1..(i - 1) : objects[j].name = objects[i].name
         THEN DictItemsFrom(objects, i + 1)
         ELSE <<objects[LastIndexOf(objects, objects[i].name)]>> \o DictItemsFrom(objects, i + 1)

\* Mutant of ObjectsByName: the first detection of a name wins.
ObjectsByNameFirstWins(objects) ==
    LET firsts == {i \in 1..Len(objects) : \A j \in 1..(i - 1) : objects[j].name # objects[i].name}
        Pick[k \in 0..Len(objects)] ==
            IF k = 0 THEN <<>>
            ELSE IF k \in firsts THEN Append(Pick[k - 1], objects[k]) ELSE Pick[k - 1]
    IN Pick[Len(objects)]

\* {obj['name']: obj for obj in objects} as the list of its values in iteration
\* order: a key keeps the place of its first insertion and the value written last.
ObjectsByName(objects) == DictItemsFrom(objects, 1)

DictKeys(items) == {items[i].name : i \in 1..Len(items)}

\* Mutant of HighConfidence: a score of exactly 0.7 counts.
HighConfidenceInclusive(obj) == obj.score >= 70

\* obj['score'] > 0.7, the score in hundredths
HighConfidence(obj) == obj.score > 70

RECURSIVE MissingFrom(_, _, _, _, _)
MissingFrom(scene1_id, scene2_id, objects1, objects2, i) ==
    IF i > Len(objects1) THEN <<>>
    ELSE LET obj == objects1[i]
             rest == MissingFrom(scene1_id, scene2_id, objects1, objects2, i + 1)
         IN IF HighConfidence(obj) /\ obj.name \notin DictKeys(objects2)
            THEN <<ObjectMissingIssue(scene1_id, scene2_id, obj.name)>> \o rest
            ELSE rest

\* The object-persistence issues of a pair, in the order they are added.
MissingObjectIssues(scene1_id, scene2_id, detected1, detected2) ==
    MissingFrom(scene1_id, scene2_id, ObjectsByName(detected1), ObjectsByName(detected2), 1)

\* 4 * face center x: sum(v['x'] for v in face['vertices'])
FaceSumX(face) ==
    face.vertices[1].x + face.vertices[2].x + face.vertices[3].x + face.vertices[4].x

\* abs(face1_center['x'] - face2_center['x']) > 0.4, both sides multiplied by 20
MovedDramatically(face1, face2) == 5 * Abs(FaceSumX(face1) - FaceSumX(face2)) > 8

\* Mutant of FacePositionFrom: face i of the first scene is paired with the face
\* counted from the end of the second scene's list.
RECURSIVE FacePositionFromMirrored(_, _, _, _, _)
FacePositionFromMirrored(scene1_id, scene2_id, faces1, faces2, i) ==
    IF i > Len(faces1) \/ i > Len(faces2) THEN <<>>
    ELSE LET rest == FacePositionFromMirrored(scene1_id, scene2_id, faces1, faces2, i + 1)
         IN IF MovedDramatically(faces1[i], faces2[Len(faces2) + 1 - i])
            THEN <<CharacterPositionIssue(scene1_id, scene2_id, i - 1)>> \o rest
            ELSE rest

\* for i, (face1, face2) in enumerate(zip(faces1, faces2)): the faces are paired
\* by index.
RECURSIVE FacePositionFrom(_, _, _, _, _)
FacePositionFrom(scene1_id, scene2_id, faces1, faces2, i) ==
    IF i > Len(faces1) \/ i > Len(faces2) THEN <<>>
    ELSE LET rest == FacePositionFrom(scene1_id, scene2_id, faces1, faces2, i + 1)
         IN IF MovedDramatically(faces1[i], faces2[i])
            THEN <<CharacterPositionIssue(scene1_id, scene2_id, i - 1)>> \o rest
            ELSE rest

\* Mutant of FacePositionIssues: the faces are zipped without comparing the counts.
FacePositionIssuesAnyCount(scene1_id, scene2_id, faces1, faces2) ==
    FacePositionFrom(scene1_id, scene2_id, faces1, faces2, 1)

\* The character-position issues of a pair, in the order they are added.
FacePositionIssues(scene1_id, scene2_id, faces1, faces2) ==
    IF faces1 # <<>> /\ faces2 # <<>> /\ Len(faces1) = Len(faces2)
    THEN FacePositionFrom(scene1_id, scene2_id, faces1, faces2, 1)
    ELSE <<>>

\* Mutant of CompareIssues: the faces are compared before the objects.
CompareIssuesFacesFirst(scene1_id, scene1, scene2_id, scene2) ==
    FacePositionIssues(scene1_id, scene2_id, GetFaces(scene1), GetFaces(scene2))
    \o MissingObjectIssues(scene1_id, scene2_id, GetObjects(scene1), GetObjects(scene2))

\* All issues _compare_scenes adds for the pair.
CompareIssues(scene1_id, scene1, scene2_id, scene2) ==
    MissingObjectIssues(scene1_id, scene2_id, GetObjects(scene1), GetObjects(scene2))
    \o FacePositionIssues(scene1_id, scene2_id, GetFaces(scene1), GetFaces(scene2))

----------------------------------------------------------------------------
(* The world outside the program: for every existing path, the size PIL    *)
(* reads from the file and what the annotation service answers for it.     *)
(* The answers do not change during a behaviour: a behaviour is a sequence *)
(* of calls with the same annotation responses.  A file that exists stays  *)
(* a readable image, and the Firebase writes of _store_results succeed.    *)

\* The annotation call raises.
VisionError == [ok |-> FALSE, objects |-> <<>>, faces |-> <<>>]

\* The annotation call returns these object and face annotations.
Annotation(objects, faces) == [ok |-> TRUE, objects |-> objects, faces |-> faces]

Answer(width, height, vision) == [width |-> width, height |-> height, vision |-> vision]

\* Bounding boxes, in 120ths of the image: the centre of the first is within the
\* tolerance of the upper-left thirds point, the second is centred on the image
\* centre, off every thirds point.
OnThirdsBox == Box(30, 30, 60, 60)
CentreBox == Box(30, 30, 90, 90)

\* Face polygons in pixels: the same face 0, 1 and 2 pixels to the right.
FaceAt(x) == Face(<<Vertex(x, 40), Vertex(x + 20, 40), Vertex(x + 20, 60), Vertex(x, 60)>>)

\* The answers the orchestration claims are checked with.
BasicAnswers ==
    { Answer(300, 300, VisionError),
      Answer(300, 300, Annotation(<<DetObject("cup", 90, CentreBox)>>, <<FaceAt(10)>>)),
      Answer(300, 300, Annotation(<<DetObject("hat", 90, OnThirdsBox)>>, <<FaceAt(12)>>)) }

\* Detections the continuity claims draw from: two names, a score of exactly 0.7
\* and one above it.
ObjectPool ==
    {DetObject(name, score, CentreBox) : name \in {"cup", "hat"}, score \in {70, 90}}

\* Faces the continuity claims draw from: the second has moved by two pixels.
FacePool == {FaceAt(10), FaceAt(12)}

\* Answers with object lists, or face lists, up to a length.
AnswersUpTo(max_objects, max_faces) ==
    {Answer(300, 300, Annotation(objects, <<>>)) : objects \in SeqsUpTo(ObjectPool, max_objects)}
    \cup {Answer(300, 300, Annotation(<<>>, faces)) : faces \in SeqsUpTo(FacePool, max_faces)}

\* The worlds of the continuity claims: the first file carries the long lists,
\* the second at most one object or one face; scenes take either file in either
\* order.
ContinuityWorlds ==
    {[p \in ExistingPaths |-> IF p = "a.jpg" THEN long ELSE short] :
        long \in AnswersUpTo(MaxObjects, MaxFaces), short \in AnswersUpTo(1, 1)}

\* Bounding boxes the composition claims draw from, besides the two above: the
\* centre of the first is exactly one tenth of the width left of the upper-left
\* thirds point and vertically within the tolerance; the second is far from every
\* thirds point on both axes; the third is horizontally within the tolerance and
\* vertically far.  The last two and OnThirdsBox have the same area.
EdgeBox == Box(0, 30, 56, 60)
CornerBox == Box(0, 0, 30, 30)
ColumnBox == Box(30, 0, 60, 30)

CompositionPool ==
    {DetObject("cup", 90, vertices) :
        vertices \in {OnThirdsBox, CentreBox, EdgeBox, CornerBox, ColumnBox}}

\* img.size: a square image and one twice as wide
ImageSizes == {<<300, 300>>, <<600, 300>>}

\* The worlds of the composition claims: the first file is of either size and
\* carries up to MaxObjects objects, or its annotation call raises; the second
\* carries a face and no object.
CompositionWorlds ==
    {[p \in ExistingPaths |->
         IF p = "a.jpg" THEN first ELSE Answer(300, 300, Annotation(<<>>, <<FaceAt(10)>>))] :
        first \in {Answer(size[1], size[2], Annotation(objects, <<>>)) :
                      size \in ImageSizes, objects \in SeqsUpTo(CompositionPool, MaxObjects)}
                  \cup {Answer(300, 300, VisionError)}}

\* The world the ingestion claims are checked with.
IngestWorld ==
    [p \in ExistingPaths |->
        IF p = "a.jpg"
        THEN Answer(300, 300, Annotation(<<DetObject("cup", 90, CentreBox)>>, <<FaceAt(10)>>))
        ELSE Answer(300, 300, Annotation(<<DetObject("hat", 90, OnThirdsBox)>>, <<FaceAt(12)>>))]

----------------------------------------------------------------------------
(* StoryboardGen._parse_script: screenplay segmentation *)

\* the alternatives of (INT\.|EXT\.)
SlugTokens == {"INT.", "EXT."}

\* the characters \s matches and strip() removes, among the tokens
Whitespace == {" ", "\n"}

SetMin(S) == CHOOSE n \in S : \A m \in S : n <= m

SetMax(S) == CHOOSE n \in S : \A m \in S : m <= n

\* str.strip()
Strip(text) ==
    LET kept == {i \in 1..Len(text) : text[i] \notin Whitespace}
    IN IF kept = {} THEN <<>> ELSE SubSeq(text, SetMin(kept), SetMax(kept))

\* A blank line starts at position i: the lookahead \n\n, and the separator of split.
BlankLineAt(text, i) == i + 1 <= Len(text) /\ text[i] = "\n" /\ text[i + 1] = "\n"

\* No match of the pattern.
NoMatch == [found |-> FALSE, start |-> 0, group2 |-> 0, end |-> 0]

\* The match of (INT\.|EXT\.)\s+(.+?)(?=\n\n|\Z), with DOTALL, that starts at
\* position p, if there is one: the slugline token, then the whole run of
\* whitespace (less its last character when the run ends the text, for .+? needs
\* one character), then as few characters as possible, and at least one, up to a
\* blank line or the end of the text.  start is the position of the token,
\* group2 the position where (.+?) starts, end the position after the match.
MatchAt(text, p) ==
    IF ~(text[p] \in SlugTokens /\ p + 1 <= Len(text) /\ text[p + 1] \in Whitespace)
    THEN NoMatch
    ELSE LET run_end == SetMax({k \in (p + 1)..Len(text) :
                                   \A j \in (p + 1)..k : text[j] \in Whitespace})
         IN IF run_end = Len(text) /\ run_end < p + 2
            THEN NoMatch
            ELSE LET group2 == IF run_end < Len(text) THEN run_end + 1 ELSE Len(text)
                     end == SetMin({k \in (group2 + 1)..(Len(text) + 1) :
                                       k = Len(text) + 1 \/ BlankLineAt(text, k)})
                 IN [found |-> TRUE, start |-> p, group2 |-> group2, end |-> end]

\* scene_pattern.findall(text) from position pos on: the matches from left to
\* right, each search resuming where the previous match ended.
RECURSIVE FindAll(_, _)
FindAll(text, pos) ==
    IF pos > Len(text) THEN <<>>
    ELSE LET m == MatchAt(text, pos)
         IN IF m.found THEN <<m>> \o FindAll(text, m.end) ELSE FindAll(text, pos + 1)

\* scene_pattern.search(text, pos): the first match at or after pos, or NoMatch.
Search(text, pos) ==
    LET all == FindAll(text, pos) IN IF all = <<>> THEN NoMatch ELSE all[1]

\* The part of a text before its first opening parenthesis: split('(')[0]
BeforeParenthesis(text) ==
    LET at == {i \in 1..Len(text) : text[i] = "("}
    IN IF at = {} THEN text ELSE SubSeq(text, 1, SetMin(at) - 1)

\* f"{location_type} {scene_content.split('(')[0].strip()}"
SluglineHeading(text, m) ==
    <<text[m.start], " ">> \o Strip(BeforeParenthesis(SubSeq(text, m.group2, m.end - 1)))

\* f"scene_{i+1}", as the pair of the prefix and the number
SceneId(n) == <<"scene", n>>

ScriptScene(scene_id, heading, content) ==
    [scene_id |-> scene_id, heading |-> heading, content |-> content]

\* text.split("\n\n") from position i on, cur being the chunk collected so far
RECURSIVE SplitBlankLines(_, _, _)
SplitBlankLines(text, i, cur) ==
    IF i > Len(text) THEN <<cur>>
    ELSE IF BlankLineAt(text, i) THEN <<cur>> \o SplitBlankLines(text, i + 2, <<>>)
    ELSE SplitBlankLines(text, i + 1, Append(cur, text[i]))

\* The fallback tier: "for i, chunk in enumerate(chunks): if chunk.strip(): ...",
\* i being here the 1-based place of the chunk among all chunks.
RECURSIVE ParagraphScenes(_, _, _)
ParagraphScenes(chunks, i, made) ==
    IF i > Len(chunks) THEN made
    ELSE IF Strip(chunks[i]) # <<>>
         THEN ParagraphScenes(chunks, i + 1,
                  Append(made, ScriptScene(SceneId(i), <<"Scene", " ", ToString(i)>>,
                                           Strip(chunks[i]))))
         ELSE ParagraphScenes(chunks, i + 1, made)

\* The slugline tier: "for i, (location_type, scene_content) in enumerate(scenes)",
\* the match being searched again from current_position and the segment running
\* up to the start of the match after it.
RECURSIVE SluglineScenes(_, _, _, _)
SluglineScenes(text, found, i, current_position) ==
    IF i > Len(found) THEN <<>>
    ELSE LET match_obj == Search(text, current_position)
         IN IF ~match_obj.found
            THEN SluglineScenes(text, found, i + 1, current_position)
            ELSE LET next_match == Search(text, match_obj.end)
                     scene_end == IF i < Len(found) /\ next_match.found
                                  THEN next_match.start
                                  ELSE Len(text) + 1
                 IN <<ScriptScene(SceneId(i), SluglineHeading(text, found[i]),
                                  Strip(SubSeq(text, match_obj.start, scene_end - 1)))>>
                    \o SluglineScenes(text, found, i + 1, match_obj.end)

\* _parse_script: the value it leaves in self.script_scenes
ParseScript(text) ==
    LET found == FindAll(text, 1)
    IN IF found = <<>>
       THEN ParagraphScenes(SplitBlankLines(text, 1, <<>>), 1, <<>>)
       ELSE SluglineScenes(text, found, 1, 1)

----------------------------------------------------------------------------
(* StoryboardGen: shot breakdown and frame synthesis *)

\* StoryboardGen.SHOT_TYPES.keys()
SHOT_TYPES ==
    {"ECU", "CU", "MCU", "MS", "MLS", "LS", "ELS", "WS", "OTS", "POV", "AERIAL", "LOW", "HIGH",
     "DUTCH"}

\* StoryboardGen.CAMERA_MOVEMENTS.keys()
CAMERA_MOVEMENTS ==
    {"STATIC", "PAN", "TILT", "DOLLY", "TRUCK", "CRANE", "HANDHELD", "STEADICAM", "ZOOM"}

\* An element of the value json.loads returns that is a dict with the keys
\* 'description', 'shot_type' and 'camera_movement'.  A description is a sequence
\* of strings.
ShotDescriptor(description, shot_type, camera_movement) ==
    [complete |-> TRUE, description |-> description,
     shot_type |-> shot_type, camera_movement |-> camera_movement]

\* An element that is no such dict (a number, a string, a key of a JSON object,
\* a dict without one of the keys): reading shot['shot_type'] from it raises.
NotAShot ==
    [complete |-> FALSE, description |-> <<>>, shot_type |-> "", camera_movement |-> ""]

\* What a generate_content call gives, after the code fences are removed:
\*   "raises"  the call, or reading response.text, raises;
\*   "text"    the text is not JSON;
\*   "scalar"  the text is JSON for null, a number or a boolean;
\*   "object"  the text is a JSON object or a JSON string, items being what
\*             iterating over it gives (keys, characters);
\*   "array"   the text is a JSON array of these items.
Response(kind, items) == [kind |-> kind, items |-> items]

\* The list _analyze_scene_for_shots returns in both of its except branches.
FallbackShots(scene) ==
    Response("array",
             <<ShotDescriptor(<<"Establishing shot for">> \o scene.heading, "WS", "STATIC")>>)

\* _analyze_scene_for_shots: the value it returns for this answer of the text
\* model.  len(shots) raises TypeError on a scalar, which the outer handler
\* turns into the fallback; an object or a string is returned as it is.
AnalyzeSceneForShots(scene, response) ==
    IF response.kind = "raises" THEN FallbackShots(scene)
    ELSE IF response.kind = "text" THEN FallbackShots(scene)
    ELSE IF response.kind = "scalar" THEN FallbackShots(scene)
    ELSE response

\* f"{scene['scene_id']}_shot_{i+1}"
FrameId(scene_id, k) == scene_id \o <<"shot", k>>

\* StoryboardFrame(...): image_path and notes are derived from frame_id and the
\* heading and are left out, as are the characters.
StoryboardFrame(scene, k, shot) ==
    [frame_id |-> FrameId(scene.scene_id, k),
     scene_id |-> scene.scene_id,
     description |-> shot.description,
     shot_type |-> shot.shot_type,
     camera_movement |-> shot.camera_movement]

\* _generate_image_for_shot and the construction of the frame do not raise.
FrameSucceeds(shot, render_fails) == shot.complete /\ shot.description \notin render_fails

\* Mutant of GenerateFramesForShots: the first failure ends the loop.
RECURSIVE GenerateFramesForShotsBreak(_, _, _, _)
GenerateFramesForShotsBreak(scene, shots, render_fails, k) ==
    IF k > Len(shots.items) THEN <<>>
    ELSE IF FrameSucceeds(shots.items[k], render_fails)
         THEN <<StoryboardFrame(scene, k, shots.items[k])>>
              \o GenerateFramesForShotsBreak(scene, shots, render_fails, k + 1)
         ELSE <<>>

\* _generate_frames_for_shots from the k-th shot on: a shot whose image
\* generation raises is skipped.
RECURSIVE GenerateFramesForShots(_, _, _, _)
GenerateFramesForShots(scene, shots, render_fails, k) ==
    IF k > Len(shots.items) THEN <<>>
    ELSE IF FrameSucceeds(shots.items[k], render_fails)
         THEN <<StoryboardFrame(scene, k, shots.items[k])>>
              \o GenerateFramesForShots(scene, shots, render_fails, k + 1)
         ELSE GenerateFramesForShots(scene, shots, render_fails, k + 1)

\* The answer to the j-th generate_content call of a generate_storyboard run.
ResponseTo(models, j) == models.responses[((j - 1) % Len(models.responses)) + 1]

\* The frames of the segments from position j on, in the order they are added.
RECURSIVE FramesFrom(_, _, _)
FramesFrom(segments, models, j) ==
    IF j > Len(segments) THEN <<>>
    ELSE GenerateFramesForShots(segments[j],
                                AnalyzeSceneForShots(segments[j], ResponseTo(models, j)),
                                models.render_fails, 1)
         \o FramesFrom(segments, models, j + 1)

\* The internal calls of generate_storyboard from position j on, with what the
\* shot breakdown returned and the number of frames made of it.
RECURSIVE StoryboardCallsFrom(_, _, _, _)
StoryboardCallsFrom(segments, models, firebase, j) ==
    IF j > Len(segments) THEN <<>>
    ELSE LET shots == AnalyzeSceneForShots(segments[j], ResponseTo(models, j))
             made == GenerateFramesForShots(segments[j], shots, models.render_fails, 1)
         IN <<<<"_analyze_scene_for_shots", j, shots>>,
              <<"_generate_frames_for_shots", j, Len(made)>>>>
            \o (IF firebase THEN <<<<"_save_frames_to_firebase", j, Len(made)>>>> ELSE <<>>)
            \o StoryboardCallsFrom(segments, models, firebase, j + 1)

----------------------------------------------------------------------------
(* The world of StoryboardGen: the script file, the answers of the text     *)
(* model in the order of the calls (repeated from the start when a run      *)
(* makes more calls), the descriptions of the shots whose image generation  *)
(* raises; and the output files of both tools.                              *)

GenWorld(script_file, responses, render_fails) ==
    [script_file |-> script_file, responses |-> responses, render_fails |-> render_fails]

\* Longest script, in pieces, and longest shot list of an answer.
MaxPieces == 4
MaxShots == 2

\* Pieces scripts are put together from: single tokens, a blank line, a slugline
\* with a location, a slugline with a location and a parenthesis.
ScriptPieces ==
    { <<"a">>, <<" ">>, <<"\n">>, <<"INT.">>, <<"\n", "\n">>,
      <<"INT.", " ", "a">>, <<"EXT.", " ", "a", "(", "a">> }

RECURSIVE Concat(_)
Concat(pieces) == IF pieces = <<>> THEN <<>> ELSE Head(pieces) \o Concat(Tail(pieces))

Scripts == {Concat(pieces) : pieces \in SeqsUpTo(ScriptPieces, MaxPieces)}

\* Two sluglines with a paragraph each.
TwoSluglines ==
    <<"INT.", " ", "a", "\n", "\n", "EXT.", " ", "a", "(", "a", "\n", "a", "\n">>

\* Two paragraphs, and three paragraphs of which the second is white.
TwoParagraphs == <<"a", "a", "\n", "\n", "a">>
WhiteParagraph == <<"a", "\n", "\n", " ", "\n", "\n", "a">>

\* Elements of answers: a shot with tags of the enumerations, one with tags
\* outside of them, and an element that is no shot.
GoodShot == ShotDescriptor(<<"d1">>, "CU", "PAN")
OddShot == ShotDescriptor(<<"d2">>, "XYZ", "FLY")

ResponsePool ==
    {Response(kind, <<>>) : kind \in {"raises", "text", "scalar"}}
    \cup {Response("object", <<NotAShot>>)}
    \cup {Response("array", items) : items \in SeqsUpTo({GoodShot, OddShot, NotAShot}, MaxShots)}

\* The worlds of the shot-breakdown claims: an answer for each of two segments;
\* the image of d1 may fail to be generated.
StoryboardWorlds ==
    {GenWorld(TwoSluglines, responses, render_fails) :
        responses \in [1..2 -> ResponsePool], render_fails \in {{}, {<<"d1">>}}}

\* The world wherever the text model and the renderer are not looked at.
DefaultGenWorld == GenWorld(TwoSluglines, <<Response("array", <<GoodShot, OddShot>>)>>, {})

\* The script files that exist.
ExistingScripts == {"script.txt"}

\* Arguments of load_script: a path (None, empty, existing, missing) and a text
\* (None or a string).
ScriptPaths == {"None", "", "script.txt", "missing.txt"}

NoText == [given |-> FALSE, text |-> <<>>]

TextArg(text) == [given |-> TRUE, text |-> text]

ScriptTexts == {NoText, TextArg(<<>>), TextArg(TwoParagraphs), TextArg(WhiteParagraph)}

\* Output paths and format tokens.
OutputPaths == {"out1", "out2"}
Formats == {"pdf", "html", "docx"}

\* What a file holds.
FileContent(writer, format, scene_count, issues, storyboard) ==
    [writer |-> writer, format |-> format, scene_count |-> scene_count,
     issues |-> issues, storyboard |-> storyboard]

\* No such file.
NoFile == FileContent("none", "", 0, <<>>, <<>>)

\* A file opened for writing and not written to.
EmptyFile == FileContent("open", "", 0, <<>>, <<>>)

\* StoryboardFrame.to_dict(), without the time of the call (created_at).
ToDict(frame) ==
    [frame_id |-> frame.frame_id,
     scene_id |-> frame.scene_id,
     description |-> frame.description,
     shot_type |-> frame.shot_type,
     camera_movement |-> frame.camera_movement]

\* [frame.to_dict() for frame in self.frames]
FrameDicts(frame_list) == [k \in 1..Len(frame_list) |-> ToDict(frame_list[k])]

\* len(set(frame.scene_id for frame in self.frames))
SceneCount(frame_list) == Cardinality({frame_list[k].scene_id : k \in 1..Len(frame_list)})

\* Mutant of ExportData: the segments of the script are counted.
ExportDataCountsSegments(frame_list) ==
    [frames |-> FrameDicts(frame_list),
     metadata |-> [source |-> "StoryboardGen",
                   scene_count |-> Len(script_scenes),
                   frame_count |-> Len(frame_list)]]

\* export_data, without project id, export time and version.
ExportData(frame_list) ==
    [frames |-> FrameDicts(frame_list),
     metadata |-> [source |-> "StoryboardGen",
                   scene_count |-> SceneCount(frame_list),
                   frame_count |-> Len(frame_list)]]

\* No export has returned.
NoExport ==
    [frames |-> <<>>,
     metadata |-> [source |-> "none", scene_count |-> 0, frame_count |-> 0]]

\* Arguments of export_to_timeline_assembler: None, the empty string, a path.
ExportPaths == {"None", "", "out1"}

\* The worlds of the export: for each of two segments the text model fails or
\* answers a list of shots and of elements that are no shots.
ExportWorlds ==
    {GenWorld(TwoSluglines, responses, {}) :
        responses \in [1..2 -> {Response("raises", <<>>)}
                                \cup {Response("array", items) :
                                          items \in SeqsUpTo({GoodShot, NotAShot}, MaxShots)}]}

\* StoryboardGen.__init__, in the default world, and no output file.
InitStoryboardGen ==
    /\ script_text = <<>>
    /\ script_scenes = <<>>
    /\ frames = <<>>
    /\ gen_world = DefaultGenWorld
    /\ written = [path \in OutputPaths |-> NoFile]
    /\ export_data = NoExport

----------------------------------------------------------------------------
(* How calls end, and the record of a validate() run *)

Outcome(op, args, status) == [op |-> op, args |-> args, status |-> status]

RunOutcome(status, res) == [status |-> status, issues |-> res.issues, scene_count |-> res.scene_count]

\* The latest two outcomes of validate() since the scenes last changed.
PushRun(rs, outcome) == IF rs = <<>> THEN <<outcome>> ELSE <<rs[Len(rs)], outcome>>

RECURSIVE AddIssueCalls(_)
AddIssueCalls(issues) ==
    IF issues = <<>> THEN <<>>
    ELSE <<<<"add_issue", Head(issues)>>>> \o AddIssueCalls(Tail(issues))

Init ==
    /\ scenes = [id \in {} |-> 0]
    /\ scene_order = <<>>
    /\ results = NewResults
    /\ use_firebase \in BOOLEAN
    /\ world \in [ExistingPaths -> BasicAnswers]
    /\ pc = "idle"
    /\ idx = 0
    /\ ret = Outcome("__init__", <<>>, "returned")
    /\ calls = <<>>
    /\ runs = <<>>
    /\ InitStoryboardGen

----------------------------------------------------------------------------
(* add_scene *)

SceneRecord(scene_path, timestamp, metadata) ==
    [path |-> scene_path,
     timestamp |-> timestamp,
     metadata |-> MetadataOrEmpty(metadata),
     annotations |-> EmptyAnnotations]

\* self.scenes[scene_id] = record
PutScene(map, scene_id, record) ==
    [id \in DOMAIN map \cup {scene_id} |-> IF id = scene_id THEN record ELSE map[id]]

\* Mutant of KeepOrder: the id is appended whether or not it is already there.
KeepOrderAlwaysAppend(order, scene_id) == Append(order, scene_id)

\* Mutant of KeepOrder: the id is looked for at the end of the list only.
KeepOrderLooksAtLast(order, scene_id) ==
    IF order # <<>> /\ order[Len(order)] = scene_id THEN order ELSE Append(order, scene_id)

\* if scene_id not in self.scene_order: self.scene_order.append(scene_id)
KeepOrder(order, scene_id) ==
    IF \E i \in 1..Len(order) : order[i] = scene_id THEN order ELSE Append(order, scene_id)

\* Mutant of AddScene: the record is stored before the path is checked.
AddSceneStoreFirst(scene_path, scene_id, timestamp, metadata) ==
    /\ pc = "idle"
    /\ scenes' = PutScene(scenes, scene_id, SceneRecord(scene_path, timestamp, metadata))
    /\ IF scene_path \notin ExistingPaths
       THEN /\ ret' = Outcome("add_scene", <<scene_path, scene_id, timestamp, metadata>>,
                                "FileNotFoundError")
            /\ UNCHANGED <<scene_order, runs>>
       ELSE /\ scene_order' = KeepOrder(scene_order, scene_id)
            /\ ret' = Outcome("add_scene", <<scene_path, scene_id, timestamp, metadata>>, "returned")
            /\ runs' = <<>>
    /\ calls' = <<>>
    /\ UNCHANGED <<results, use_firebase, world, pc, idx>>
    /\ UNCHANGED genvars

AddScene(scene_path, scene_id, timestamp, metadata) ==
    /\ pc = "idle"
    /\ IF scene_path \notin ExistingPaths
       THEN /\ ret' = Outcome("add_scene", <<scene_path, scene_id, timestamp, metadata>>,
                                "FileNotFoundError")
            /\ UNCHANGED <<scenes, scene_order, runs>>
       ELSE /\ scenes' = PutScene(scenes, scene_id, SceneRecord(scene_path, timestamp, metadata))
            /\ scene_order' = KeepOrder(scene_order, scene_id)
            /\ ret' = Outcome("add_scene", <<scene_path, scene_id, timestamp, metadata>>, "returned")
            /\ runs' = <<>>
    /\ calls' = <<>>
    /\ UNCHANGED <<results, use_firebase, world, pc, idx>>
    /\ UNCHANGED genvars

----------------------------------------------------------------------------
(* validate *)

\* Mutant of FreshResults: the old result set is kept and only its count updated.
FreshResultsKeepIssues(n) == [issues |-> results.issues, scene_count |-> n]

\* self.results = ValidationResults(); self.results.scene_count = len(self.scenes)
FreshResults(n) == [issues |-> <<>>, scene_count |-> n]

\* Mutant of Validate: no early return on an empty scene set.
ValidateNoEarlyReturn ==
    /\ pc = "idle"
    /\ calls' = <<>>
    /\ results' = [issues |-> <<>>, scene_count |-> Cardinality(DOMAIN scenes)]
    /\ pc' = IF scene_order = <<>> THEN "finish" ELSE "process"
    /\ idx' = IF scene_order = <<>> THEN 0 ELSE 1
    /\ UNCHANGED <<scenes, scene_order, use_firebase, world, ret, runs>>
    /\ UNCHANGED genvars

\* Entry of validate(): the early return on no scenes, otherwise a fresh result set.
Validate ==
    /\ pc = "idle"
    /\ calls' = <<>>
    /\ IF DOMAIN scenes = {}
       THEN /\ ret' = Outcome("validate", <<>>, "returned")
            /\ runs' = PushRun(runs, RunOutcome("returned", results))
            /\ UNCHANGED <<results, pc, idx>>
       ELSE /\ results' = FreshResults(Cardinality(DOMAIN scenes))
            /\ pc' = "process"
            /\ idx' = 1
            /\ UNCHANGED <<ret, runs>>
    /\ UNCHANGED <<scenes, scene_order, use_firebase, world>>
    /\ UNCHANGED genvars

\* Where validate() goes after the scene loop has handled position i.
AfterProcess(i) ==
    IF i < Len(scene_order) THEN [pc |-> "process", idx |-> i + 1]
    ELSE IF Len(scene_order) > 1 THEN [pc |-> "compare", idx |-> 1]
    ELSE [pc |-> "finish", idx |-> 0]

\* Mutant of ProcessScene: a scene that already carries annotations is not
\* analysed again, and its composition is not checked again.
ProcessSceneCached ==
    /\ pc = "process"
    /\ LET scene_id == scene_order[idx]
           answer == world[scenes[scene_id].path]
       IN IF scenes[scene_id].annotations.present
          THEN /\ pc' = AfterProcess(idx).pc
               /\ idx' = AfterProcess(idx).idx
               /\ UNCHANGED <<scenes, results, calls, ret, runs>>
          ELSE IF ~answer.vision.ok
          THEN /\ calls' = Append(calls, <<"_analyze_with_vision", scene_id>>)
               /\ pc' = "idle"
               /\ idx' = 0
               /\ ret' = Outcome("validate", <<>>, "raised")
               /\ runs' = PushRun(runs, RunOutcome("raised", results))
               /\ UNCHANGED <<scenes, results>>
          ELSE LET issues == CompositionIssues(scene_id, answer.vision.objects,
                                               answer.width, answer.height)
               IN /\ scenes' = [scenes EXCEPT ![scene_id].annotations =
                                    [present |-> TRUE,
                                     objects |-> answer.vision.objects,
                                     faces |-> answer.vision.faces]]
                  /\ results' = [results EXCEPT !.issues = results.issues \o issues]
                  /\ calls' = calls \o <<<<"_analyze_with_vision", scene_id>>,
                                         <<"_validate_composition", scene_id>>>>
                                    \o AddIssueCalls(issues)
                  /\ pc' = AfterProcess(idx).pc
                  /\ idx' = AfterProcess(idx).idx
                  /\ UNCHANGED <<ret, runs>>
    /\ UNCHANGED <<scene_order, use_firebase, world>>
    /\ UNCHANGED genvars

\* One turn of "for scene_id in self.scene_order: self._process_scene(scene_id)":
\* _analyze_with_vision, (_analyze_with_ml, a placeholder,) _validate_composition.
\* An exception of the annotation call is caught nowhere and ends validate().
ProcessScene ==
    /\ pc = "process"
    /\ LET scene_id == scene_order[idx]
           answer == world[scenes[scene_id].path]
       IN IF ~answer.vision.ok
          THEN /\ calls' = Append(calls, <<"_analyze_with_vision", scene_id>>)
               /\ pc' = "idle"
               /\ idx' = 0
               /\ ret' = Outcome("validate", <<>>, "raised")
               /\ runs' = PushRun(runs, RunOutcome("raised", results))
               /\ UNCHANGED <<scenes, results>>
          ELSE LET issues == CompositionIssues(scene_id, answer.vision.objects,
                                               answer.width, answer.height)
               IN /\ scenes' = [scenes EXCEPT ![scene_id].annotations =
                                    [present |-> TRUE,
                                     objects |-> answer.vision.objects,
                                     faces |-> answer.vision.faces]]
                  /\ results' = [results EXCEPT !.issues = results.issues \o issues]
                  /\ calls' = calls \o <<<<"_analyze_with_vision", scene_id>>,
                                         <<"_validate_composition", scene_id>>>>
                                    \o AddIssueCalls(issues)
                  /\ pc' = AfterProcess(idx).pc
                  /\ idx' = AfterProcess(idx).idx
                  /\ UNCHANGED <<ret, runs>>
    /\ UNCHANGED <<scene_order, use_firebase, world>>
    /\ UNCHANGED genvars

\* One turn of "for i in range(len(self.scene_order) - 1)": the pair (i, i + 1).
CompareScenes ==
    /\ pc = "compare"
    /\ LET scene1 == scene_order[idx]
           scene2 == scene_order[idx + 1]
           issues == CompareIssues(scene1, scenes[scene1], scene2, scenes[scene2])
       IN /\ results' = [results EXCEPT !.issues = results.issues \o issues]
          /\ calls' = Append(calls, <<"_compare_scenes", scene1, scene2>>)
                          \o AddIssueCalls(issues)
    /\ IF idx + 1 < Len(scene_order)
       THEN /\ idx' = idx + 1
            /\ pc' = "compare"
       ELSE /\ idx' = 0
            /\ pc' = "finish"
    /\ UNCHANGED <<scenes, scene_order, use_firebase, world, ret, runs>>
    /\ UNCHANGED genvars

\* The end of validate(): _store_results() if Firebase is enabled, then the return.
ValidateFinish ==
    /\ pc = "finish"
    /\ calls' = IF use_firebase THEN Append(calls, <<"_store_results", Len(results.issues)>>)
                ELSE calls
    /\ pc' = "idle"
    /\ ret' = Outcome("validate", <<>>, "returned")
    /\ runs' = PushRun(runs, RunOutcome("returned", results))
    /\ UNCHANGED <<scenes, scene_order, results, use_firebase, world, idx>>
    /\ UNCHANGED genvars

----------------------------------------------------------------------------
(* StoryboardGen.load_script, generate_storyboard, generate_storyboard_document; *)
(* SceneValidator.generate_report                                          *)

\* "if script_path": None and the empty string count as not given
PathGiven(script_path) == script_path \notin {"None", ""}

\* "if script_text": None and the empty string count as not given
TextGiven(text_arg) == text_arg.given /\ text_arg.text # <<>>

\* Mutant of LoadScript: _parse_script appends to the segment list it finds.
LoadScriptKeepsScenes(script_path, text_arg) ==
    /\ pc = "idle"
    /\ IF PathGiven(script_path) /\ TextGiven(text_arg)
       THEN /\ ret' = Outcome("load_script", <<script_path, text_arg>>, "ValueError")
            /\ calls' = <<>>
            /\ UNCHANGED <<script_text, script_scenes>>
       ELSE IF PathGiven(script_path)
       THEN IF script_path \notin ExistingScripts
            THEN /\ ret' = Outcome("load_script", <<script_path, text_arg>>, "FileNotFoundError")
                 /\ calls' = <<>>
                 /\ UNCHANGED <<script_text, script_scenes>>
            ELSE /\ script_text' = gen_world.script_file
                 /\ script_scenes' = script_scenes \o ParseScript(gen_world.script_file)
                 /\ calls' = <<<<"_parse_script">>>>
                 /\ ret' = Outcome("load_script", <<script_path, text_arg>>, "returned")
       ELSE IF TextGiven(text_arg)
       THEN /\ script_text' = text_arg.text
            /\ script_scenes' = script_scenes \o ParseScript(text_arg.text)
            /\ calls' = <<<<"_parse_script">>>>
            /\ ret' = Outcome("load_script", <<script_path, text_arg>>, "returned")
       ELSE /\ ret' = Outcome("load_script", <<script_path, text_arg>>, "ValueError")
            /\ calls' = <<>>
            /\ UNCHANGED <<script_text, script_scenes>>
    /\ UNCHANGED <<scenes, scene_order, results, use_firebase, world, pc, idx, runs>>
    /\ UNCHANGED <<frames, gen_world, written, export_data>>

\* load_script(script_path, script_text), _parse_script included.
LoadScript(script_path, text_arg) ==
    /\ pc = "idle"
    /\ IF PathGiven(script_path) /\ TextGiven(text_arg)
       THEN /\ ret' = Outcome("load_script", <<script_path, text_arg>>, "ValueError")
            /\ calls' = <<>>
            /\ UNCHANGED <<script_text, script_scenes>>
       ELSE IF PathGiven(script_path)
       THEN IF script_path \notin ExistingScripts
            THEN /\ ret' = Outcome("load_script", <<script_path, text_arg>>, "FileNotFoundError")
                 /\ calls' = <<>>
                 /\ UNCHANGED <<script_text, script_scenes>>
            ELSE /\ script_text' = gen_world.script_file
                 /\ script_scenes' = ParseScript(gen_world.script_file)
                 /\ calls' = <<<<"_parse_script">>>>
                 /\ ret' = Outcome("load_script", <<script_path, text_arg>>, "returned")
       ELSE IF TextGiven(text_arg)
       THEN /\ script_text' = text_arg.text
            /\ script_scenes' = ParseScript(text_arg.text)
            /\ calls' = <<<<"_parse_script">>>>
            /\ ret' = Outcome("load_script", <<script_path, text_arg>>, "returned")
       ELSE /\ ret' = Outcome("load_script", <<script_path, text_arg>>, "ValueError")
            /\ calls' = <<>>
            /\ UNCHANGED <<script_text, script_scenes>>
    /\ UNCHANGED <<scenes, scene_order, results, use_firebase, world, pc, idx, runs>>
    /\ UNCHANGED <<frames, gen_world, written, export_data>>

\* generate_storyboard(): every segment in order, its shot breakdown, its frames.
GenerateStoryboard ==
    /\ pc = "idle"
    /\ IF script_scenes = <<>>
       THEN /\ ret' = Outcome("generate_storyboard", <<>>, "ValueError")
            /\ calls' = <<>>
            /\ UNCHANGED frames
       ELSE /\ frames' = FramesFrom(script_scenes, gen_world, 1)
            /\ calls' = StoryboardCallsFrom(script_scenes, gen_world, use_firebase, 1)
            /\ ret' = Outcome("generate_storyboard", <<>>, "returned")
    /\ UNCHANGED <<scenes, scene_order, results, use_firebase, world, pc, idx, runs>>
    /\ UNCHANGED <<script_text, script_scenes, gen_world, written, export_data>>

\* generate_storyboard_document(output_path, format)
GenerateStoryboardDocument(output_path, format) ==
    /\ pc = "idle"
    /\ calls' = <<>>
    /\ IF format \notin {"pdf", "html"}
       THEN /\ ret' = Outcome("generate_storyboard_document", <<output_path, format>>, "ValueError")
            /\ UNCHANGED written
       ELSE IF frames = <<>>
       THEN /\ ret' = Outcome("generate_storyboard_document", <<output_path, format>>, "ValueError")
            /\ UNCHANGED written
       ELSE /\ written' = [written EXCEPT ![output_path] =
                              FileContent("generate_storyboard_document", format, 0, <<>>, frames)]
            /\ ret' = Outcome("generate_storyboard_document", <<output_path, format>>, "returned")
    /\ UNCHANGED <<scenes, scene_order, results, use_firebase, world, pc, idx, runs>>
    /\ UNCHANGED <<script_text, script_scenes, frames, gen_world, export_data>>

\* Mutant of GenerateReport: the file is opened before the format is looked at.
GenerateReportOpensFirst(output_path, format) ==
    /\ pc = "idle"
    /\ calls' = <<>>
    /\ IF format \notin {"pdf", "html"}
       THEN /\ ret' = Outcome("generate_report", <<output_path, format>>, "ValueError")
            /\ written' = [written EXCEPT ![output_path] = EmptyFile]
       ELSE /\ written' = [written EXCEPT ![output_path] =
                              FileContent("generate_report", "", results.scene_count,
                                          results.issues, <<>>)]
            /\ ret' = Outcome("generate_report", <<output_path, format>>, "returned")
    /\ UNCHANGED <<scenes, scene_order, results, use_firebase, world, pc, idx, runs>>
    /\ UNCHANGED <<script_text, script_scenes, frames, gen_world, export_data>>

\* generate_report(output_path, format): what is written does not depend on the
\* format.
GenerateReport(output_path, format) ==
    /\ pc = "idle"
    /\ calls' = <<>>
    /\ IF format \notin {"pdf", "html"}
       THEN /\ ret' = Outcome("generate_report", <<output_path, format>>, "ValueError")
            /\ UNCHANGED written
       ELSE /\ written' = [written EXCEPT ![output_path] =
                              FileContent("generate_report", "", results.scene_count,
                                          results.issues, <<>>)]
            /\ ret' = Outcome("generate_report", <<output_path, format>>, "returned")
    /\ UNCHANGED <<scenes, scene_order, results, use_firebase, world, pc, idx, runs>>
    /\ UNCHANGED <<script_text, script_scenes, frames, gen_world, export_data>>

\* export_to_timeline_assembler(output_path): json.dump writes the document
\* it returns.
ExportToTimelineAssembler(output_path) ==
    /\ pc = "idle"
    /\ calls' = <<>>
    /\ IF frames = <<>>
       THEN /\ ret' = Outcome("export_to_timeline_assembler", <<output_path>>, "ValueError")
            /\ UNCHANGED <<written, export_data>>
       ELSE /\ export_data' = ExportData(frames)
            /\ written' = IF output_path \notin {"None", ""}
                          THEN [written EXCEPT ![output_path] = ExportData(frames)]
                          ELSE written
            /\ ret' = Outcome("export_to_timeline_assembler", <<output_path>>, "returned")
    /\ UNCHANGED <<scenes, scene_order, results, use_firebase, world, pc, idx, runs>>
    /\ UNCHANGED <<script_text, script_scenes, frames, gen_world>>

----------------------------------------------------------------------------
(* Specifications *)

\* add_scene(path, id) with timestamp and metadata left at their defaults (None)
AddSceneDefaults ==
    \E scene_path \in Paths, scene_id \in SceneIds :
        AddScene(scene_path, scene_id, "None", "None")

\* add_scene with every argument given, on two of the ids
AddSceneAny ==
    \E scene_path \in Paths, scene_id \in IngestIds,
       timestamp \in Timestamps, metadata \in Metadatas :
        AddScene(scene_path, scene_id, timestamp, metadata)

\* The orchestration of validate() over up to three scenes.
Next ==
    \/ AddSceneDefaults
    \/ Validate
    \/ ProcessScene
    \/ CompareScenes
    \/ ValidateFinish

Spec == Init /\ [][Next]_vars

\* Scene ingestion with all arguments of add_scene varying.
InitIngest ==
    /\ Init
    /\ world = IngestWorld

NextIngest ==
    \/ AddSceneAny
    \/ Validate
    \/ ProcessScene
    \/ CompareScenes
    \/ ValidateFinish

SpecIngest == InitIngest /\ [][NextIngest]_vars

\* Continuity of two scenes over the annotation lists of ContinuityWorlds.
InitContinuity ==
    /\ scenes = [id \in {} |-> 0]
    /\ scene_order = <<>>
    /\ results = NewResults
    /\ use_firebase = FALSE
    /\ world \in ContinuityWorlds
    /\ pc = "idle"
    /\ idx = 0
    /\ ret = Outcome("__init__", <<>>, "returned")
    /\ calls = <<>>
    /\ runs = <<>>
    /\ InitStoryboardGen

\* add_scene(path, id) on two ids with an existing file
AddSceneTwo ==
    \E scene_path \in ExistingPaths, scene_id \in IngestIds :
        AddScene(scene_path, scene_id, "None", "None")

NextContinuity ==
    \/ AddSceneTwo
    \/ Validate
    \/ ProcessScene
    \/ CompareScenes
    \/ ValidateFinish

SpecContinuity == InitContinuity /\ [][NextContinuity]_vars

\* The composition check of up to two scenes over CompositionWorlds.
InitComposition ==
    /\ scenes = [id \in {} |-> 0]
    /\ scene_order = <<>>
    /\ results = NewResults
    /\ use_firebase = FALSE
    /\ world \in CompositionWorlds
    /\ pc = "idle"
    /\ idx = 0
    /\ ret = Outcome("__init__", <<>>, "returned")
    /\ calls = <<>>
    /\ runs = <<>>
    /\ InitStoryboardGen

SpecComposition == InitComposition /\ [][NextContinuity]_vars

\* Both tools just constructed, Firebase disabled, in the default worlds.
InitTools ==
    /\ scenes = [id \in {} |-> 0]
    /\ scene_order = <<>>
    /\ results = NewResults
    /\ use_firebase = FALSE
    /\ world = IngestWorld
    /\ pc = "idle"
    /\ idx = 0
    /\ ret = Outcome("__init__", <<>>, "returned")
    /\ calls = <<>>
    /\ runs = <<>>
    /\ InitStoryboardGen

\* load_script(script_path="script.txt")
LoadScriptFile == LoadScript("script.txt", NoText)

\* load_script with every combination of its two arguments
LoadScriptAny ==
    \E script_path \in ScriptPaths, text_arg \in ScriptTexts : LoadScript(script_path, text_arg)

\* load_script(script_text=...) with a text of paragraphs
LoadScriptText ==
    \E text \in {TwoParagraphs, WhiteParagraph} : LoadScript("None", TextArg(text))

\* Segmentation of every script file of Scripts.
InitSegmentation ==
    /\ scenes = [id \in {} |-> 0]
    /\ scene_order = <<>>
    /\ results = NewResults
    /\ use_firebase = FALSE
    /\ world = IngestWorld
    /\ pc = "idle"
    /\ idx = 0
    /\ ret = Outcome("__init__", <<>>, "returned")
    /\ calls = <<>>
    /\ runs = <<>>
    /\ script_text = <<>>
    /\ script_scenes = <<>>
    /\ frames = <<>>
    /\ gen_world \in {GenWorld(script, DefaultGenWorld.responses, {}) : script \in Scripts}
    /\ written = [path \in OutputPaths |-> NoFile]
    /\ export_data = NoExport

NextSegmentation ==
    \/ LoadScriptFile
    \/ GenerateStoryboard

SpecSegmentation == InitSegmentation /\ [][NextSegmentation]_vars

\* Loading scripts with every combination of arguments.
NextLoad ==
    \/ LoadScriptAny
    \/ GenerateStoryboard

SpecLoad == InitTools /\ [][NextLoad]_vars

\* Storyboards of two-segment scripts over the answers of StoryboardWorlds.
InitStoryboard ==
    /\ scenes = [id \in {} |-> 0]
    /\ scene_order = <<>>
    /\ results = NewResults
    /\ use_firebase \in BOOLEAN
    /\ world = IngestWorld
    /\ pc = "idle"
    /\ idx = 0
    /\ ret = Outcome("__init__", <<>>, "returned")
    /\ calls = <<>>
    /\ runs = <<>>
    /\ script_text = <<>>
    /\ script_scenes = <<>>
    /\ frames = <<>>
    /\ gen_world \in StoryboardWorlds
    /\ written = [path \in OutputPaths |-> NoFile]
    /\ export_data = NoExport

NextStoryboard ==
    \/ LoadScriptFile
    \/ LoadScriptText
    \/ GenerateStoryboard

SpecStoryboard == InitStoryboard /\ [][NextStoryboard]_vars

\* generate_report(output_path, format)
GenerateReportAny ==
    \E output_path \in OutputPaths, format \in Formats : GenerateReport(output_path, format)

\* generate_storyboard_document(output_path, format)
GenerateStoryboardDocumentAny ==
    \E output_path \in OutputPaths, format \in Formats :
        GenerateStoryboardDocument(output_path, format)

\* add_scene(path, "s1") with an existing file
AddSceneOne ==
    \E scene_path \in ExistingPaths : AddScene(scene_path, "s1", "None", "None")

\* The reports and documents of both tools, the validator holding at most one
\* scene (validate() then compares no pair).
NextDocuments ==
    \/ AddSceneOne
    \/ Validate
    \/ ProcessScene
    \/ ValidateFinish
    \/ GenerateReportAny
    \/ LoadScriptFile
    \/ GenerateStoryboard
    \/ GenerateStoryboardDocumentAny

SpecDocuments == InitTools /\ [][NextDocuments]_vars

\* export_to_timeline_assembler(output_path)
ExportToTimelineAssemblerAny ==
    \E output_path \in ExportPaths : ExportToTimelineAssembler(output_path)

\* Exports of the storyboards of ExportWorlds.
InitExport ==
    /\ scenes = [id \in {} |-> 0]
    /\ scene_order = <<>>
    /\ results = NewResults
    /\ use_firebase = FALSE
    /\ world = IngestWorld
    /\ pc = "idle"
    /\ idx = 0
    /\ ret = Outcome("__init__", <<>>, "returned")
    /\ calls = <<>>
    /\ runs = <<>>
    /\ script_text = <<>>
    /\ script_scenes = <<>>
    /\ frames = <<>>
    /\ gen_world \in ExportWorlds
    /\ written = [path \in OutputPaths |-> NoFile]
    /\ export_data = NoExport

NextExport ==
    \/ LoadScriptFile
    \/ LoadScriptText
    \/ GenerateStoryboard
    \/ ExportToTimelineAssemblerAny

SpecExport == InitExport /\ [][NextExport]_vars

----------------------------------------------------------------------------
(* Observations the claims are stated with *)

\* A validate() call has just finished (no other call was made since).
RunEnded == pc = "idle" /\ ret.op = "validate"

RunReturned == RunEnded /\ ret.status = "returned"

RunRaised == RunEnded /\ ret.status = "raised"

\* A validate() call over at least one scene is running or has just finished.
InRun == scene_order # <<>> /\ (pc # "idle" \/ RunEnded)

RECURSIVE CallsNamed(_, _)
CallsNamed(cs, names) ==
    IF cs = <<>> THEN <<>>
    ELSE IF Head(cs)[1] \in names
         THEN <<Head(cs)>> \o CallsNamed(Tail(cs), names)
         ELSE CallsNamed(Tail(cs), names)

\* The analysis and comparison calls made so far, in order.
WorkCalls == CallsNamed(calls, {"_analyze_with_vision", "_validate_composition", "_compare_scenes"})

RECURSIVE IssuesOf(_)
IssuesOf(cs) ==
    IF cs = <<>> THEN <<>>
    ELSE IF Head(cs)[1] = "add_issue"
         THEN <<Head(cs)[2]>> \o IssuesOf(Tail(cs))
         ELSE IssuesOf(Tail(cs))

RECURSIVE AnalysisPlan(_, _)
AnalysisPlan(order, i) ==
    IF i > Len(order) THEN <<>>
    ELSE <<<<"_analyze_with_vision", order[i]>>, <<"_validate_composition", order[i]>>>>
         \o AnalysisPlan(order, i + 1)

RECURSIVE ComparisonPlan(_, _)
ComparisonPlan(order, i) ==
    IF i >= Len(order) THEN <<>>
    ELSE <<<<"_compare_scenes", order[i], order[i + 1]>>>> \o ComparisonPlan(order, i + 1)

\* Every scene analysed in insertion order, then every adjacent pair compared
\* once, left to right.
Plan(order) == AnalysisPlan(order, 1) \o ComparisonPlan(order, 1)

IsPrefix(s, t) == Len(s) <= Len(t) /\ \A i \in 1..Len(s) : s[i] = t[i]

\* Some scene's annotation call fails in this world.
SomeAnnotationFails ==
    \E i \in 1..Len(scene_order) : ~world[scenes[scene_order[i]].path].vision.ok

\* The calls a running validate() has made are always the beginning of the plan.
CallsFollowPlan == InRun => IsPrefix(WorkCalls, Plan(scene_order))

----------------------------------------------------------------------------
(* Claims *)

\* C1: in every validate() run over n >= 1 scenes, every scene of scene_order is
\* analysed (annotation, then composition check) in insertion order before any
\* comparison, and then every adjacent pair is compared exactly once, left to
\* right, and no other pair: when the run has ended, the calls it made are
\* exactly the plan.  (Fails: a run in which an annotation call raises ends
\* after that call, see C2.)
C1_AllAnalysedThenAdjacentPairs ==
    (RunEnded /\ scene_order # <<>>) => WorkCalls = Plan(scene_order)

\* C2: if the annotation call fails for a scene during validate(), validate()
\* still returns a result set instead of raising, and the remaining scenes are
\* still processed and compared.
C2_AnnotationFailureIsNotFatal ==
    (RunEnded /\ scene_order # <<>> /\ SomeAnnotationFails)
        => /\ ret.status = "returned"
           /\ \A i \in 1..Len(scene_order) :
                  \E c \in 1..Len(calls) : calls[c] = <<"_analyze_with_vision", scene_order[i]>>
           /\ \A i \in 1..(Len(scene_order) - 1) :
                  \E c \in 1..Len(calls) :
                      calls[c] = <<"_compare_scenes", scene_order[i], scene_order[i + 1]>>

\* C3: two validate() calls in a row, with the same scenes and the same
\* annotation responses, yield the same sequence of issues (ids, types,
\* severities, scenes, locations) and the same issue count.
C3_ValidateTwiceSameIssues ==
    Len(runs) = 2 =>
        /\ runs[1].issues = runs[2].issues
        /\ Len(runs[1].issues) = Len(runs[2].issues)

\* C3 witness: a second run in a row has returned, with issues.
C3_Witness ==
    /\ RunReturned
    /\ Len(runs) = 2
    /\ Len(runs[2].issues) >= 2

\* C4: after a validate() run over a non-empty scene set, the result set holds
\* exactly the issues that run added: issues of earlier runs are discarded.
C4_OnlyThisRunsIssues ==
    InRun => results.issues = IssuesOf(calls)

\* C4 witness: a run has ended on a validator whose previous run had left issues
\* in the result set.
C4_Witness ==
    /\ RunEnded
    /\ Len(runs) = 2
    /\ runs[1].issues # <<>>
    /\ results.issues = runs[2].issues

\* C5: validate() with no scenes returns, without raising, a result set with zero
\* issues and scene_count 0, and makes no analysis, comparison or storage call.
C5_EmptyValidateIsNoOp ==
    (RunEnded /\ DOMAIN scenes = {}) =>
        /\ ret.status = "returned"
        /\ results.issues = <<>>
        /\ results.scene_count = 0
        /\ calls = <<>>

\* C5 witness: validate() has been called on a validator with Firebase enabled
\* and no scenes.
C5_Witness == RunEnded /\ DOMAIN scenes = {} /\ use_firebase

\* A step that is a call of add_scene.
AddSceneStep == pc = "idle" /\ pc' = "idle" /\ ret'.op = "add_scene"

\* C6: add_scene with a path that does not resolve fails with a NotFound error
\* and leaves the scene record map and the scene order unchanged.
C6_MissingPathChangesNothing ==
    [][(AddSceneStep /\ ret'.args[1] \notin ExistingPaths)
           => /\ ret'.status = "FileNotFoundError"
              /\ scenes' = scenes
              /\ scene_order' = scene_order]_vars

\* C6 witness: add_scene has failed on a missing path for an id that is already
\* recorded, on a validator with two scenes.
C6_Witness ==
    /\ pc = "idle"
    /\ ret.op = "add_scene"
    /\ ret.status = "FileNotFoundError"
    /\ ret.args[1] \notin ExistingPaths
    /\ ret.args[2] \in DOMAIN scenes
    /\ Len(scene_order) = 2

\* C7: add_scene with an id that already exists and a resolvable path does not
\* fail: it replaces the id's record by one with the new path, timestamp and
\* metadata (and no annotations), leaves every other record alone and leaves the
\* scene order unchanged, the id keeping its place.
C7_OverwriteKeepsOrder ==
    [][(AddSceneStep /\ ret'.args[1] \in ExistingPaths /\ ret'.args[2] \in DOMAIN scenes)
           => /\ ret'.status = "returned"
              /\ DOMAIN scenes' = DOMAIN scenes
              /\ scenes'[ret'.args[2]] =
                     [path |-> ret'.args[1],
                      timestamp |-> ret'.args[3],
                      metadata |-> IF ret'.args[4] = "None" THEN "{}" ELSE ret'.args[4],
                      annotations |-> [present |-> FALSE, objects |-> <<>>, faces |-> <<>>]]
              /\ \A id \in DOMAIN scenes \ {ret'.args[2]} : scenes'[id] = scenes[id]
              /\ scene_order' = scene_order]_vars

\* C7 witness: the last call was add_scene on the first of two recorded ids (so
\* the id existed before the call), it returned, and the record it wrote carries
\* a timestamp and metadata and has lost the annotations of an earlier run.
C7_Witness ==
    /\ pc = "idle"
    /\ ret.op = "add_scene"
    /\ ret.status = "returned"
    /\ Len(scene_order) = 2
    /\ scene_order[1] = ret.args[2]
    /\ scenes[scene_order[1]].timestamp # "None"
    /\ scenes[scene_order[1]].metadata = "take2"
    /\ results.issues # <<>>
    /\ ~scenes[scene_order[1]].annotations.present
    /\ scenes[scene_order[2]].annotations.present

\* The pair (scene_order[i], scene_order[i + 1]) has been compared by the running
\* or just returned validate(); the annotations of both scenes are then the ones
\* the comparison read.
Compared(i) ==
    /\ i \in 1..(Len(scene_order) - 1)
    /\ \/ pc = "compare" /\ i < idx
       \/ pc = "finish"
       \/ RunReturned

DetectedIn(i) == scenes[scene_order[i]].annotations.objects

FacesIn(i) == scenes[scene_order[i]].annotations.faces

NameOccursIn(name, objects) == \E j \in 1..Len(objects) : objects[j].name = name

\* The result set holds a High "object missing" issue for this name and pair.
MissingReported(i, name) ==
    \E n \in 1..Len(results.issues) :
        /\ results.issues[n].issue_id = <<"cont_obj", scene_order[i], scene_order[i + 1], name>>
        /\ results.issues[n].issue_type = "Continuity Object Missing"
        /\ results.issues[n].severity = "High"
        /\ results.issues[n].scenes = <<scene_order[i], scene_order[i + 1]>>

\* The result set holds an issue of this kind for the pair.
PairIssue(i, kind) ==
    \E n \in 1..Len(results.issues) :
        /\ results.issues[n].issue_id[1] = kind
        /\ results.issues[n].scenes = <<scene_order[i], scene_order[i + 1]>>

\* C8 (as claimed): for every compared adjacent pair, every object detected in
\* the earlier scene with confidence > 0.7 whose name does not occur among the
\* later scene's objects has a High "object missing" issue naming both scenes,
\* also when the earlier scene holds several detections of the same name.
C8_EveryConfidentDetectionReported ==
    \A i \in 1..(Len(scene_order) - 1) :
        Compared(i) =>
            \A k \in 1..Len(DetectedIn(i)) :
                (/\ DetectedIn(i)[k].score > 70
                 /\ ~NameOccursIn(DetectedIn(i)[k].name, DetectedIn(i + 1)))
                    => MissingReported(i, DetectedIn(i)[k].name)

\* C8 (amended): for every compared adjacent pair, every name whose last
\* detection in the earlier scene has confidence > 0.7 and which does not occur
\* among the later scene's objects has a High "object missing" issue naming both
\* scenes.
C8_LastConfidentDetectionReported ==
    \A i \in 1..(Len(scene_order) - 1) :
        Compared(i) =>
            \A k \in 1..Len(DetectedIn(i)) :
                (/\ DetectedIn(i)[k].score > 70
                 /\ \A j \in (k + 1)..Len(DetectedIn(i)) :
                        DetectedIn(i)[j].name # DetectedIn(i)[k].name
                 /\ ~NameOccursIn(DetectedIn(i)[k].name, DetectedIn(i + 1)))
                    => MissingReported(i, DetectedIn(i)[k].name)

\* C8 witness: a pair was compared whose earlier scene holds two detections of
\* one name, the last one above 0.7 and the first one not, the name being absent
\* from the later scene, and the issue is in the result set.
C8_Witness ==
    /\ Compared(1)
    /\ Len(DetectedIn(1)) = 2
    /\ DetectedIn(1)[1].name = DetectedIn(1)[2].name
    /\ DetectedIn(1)[1].score = 70
    /\ DetectedIn(1)[2].score = 90
    /\ ~NameOccursIn(DetectedIn(1)[2].name, DetectedIn(2))
    /\ MissingReported(1, DetectedIn(1)[2].name)

\* C9: for every compared adjacent pair in which all objects of the earlier scene
\* have confidence <= 0.7, no "object missing" issue is emitted for the pair,
\* whatever the later scene contains.
C9_LowConfidenceNeverReported ==
    \A i \in 1..(Len(scene_order) - 1) :
        (/\ Compared(i)
         /\ \A k \in 1..Len(DetectedIn(i)) : DetectedIn(i)[k].score <= 70)
            => ~PairIssue(i, "cont_obj")

\* C9 witness: a pair was compared whose earlier scene holds objects, all of
\* confidence exactly 0.7, one of them absent from the later scene.
C9_Witness ==
    /\ Compared(1)
    /\ DetectedIn(1) # <<>>
    /\ \A k \in 1..Len(DetectedIn(1)) : DetectedIn(1)[k].score = 70
    /\ \E k \in 1..Len(DetectedIn(1)) : ~NameOccursIn(DetectedIn(1)[k].name, DetectedIn(2))

\* C10: for every compared adjacent pair whose face counts differ (one of them
\* may be zero), no character-position issue is emitted for the pair.
C10_FaceCountMismatchSkips ==
    \A i \in 1..(Len(scene_order) - 1) :
        (Compared(i) /\ Len(FacesIn(i)) # Len(FacesIn(i + 1)))
            => ~PairIssue(i, "cont_face_pos")

\* C10 witness: a pair was compared with two faces in one scene and one in the
\* other, the faces at the first index far apart.
C10_Witness ==
    /\ Compared(1)
    /\ Len(FacesIn(1)) = 2
    /\ Len(FacesIn(2)) = 1
    /\ MovedDramatically(FacesIn(1)[1], FacesIn(2)[1])

\* C11: for every compared adjacent pair whose two scenes carry identical face
\* lists (the same faces with the same vertices at the same indices), no
\* character-position issue is emitted for the pair.
C11_IdenticalFacesNoIssue ==
    \A i \in 1..(Len(scene_order) - 1) :
        (Compared(i) /\ FacesIn(i) = FacesIn(i + 1))
            => ~PairIssue(i, "cont_face_pos")

\* C11 witness: a pair was compared whose scenes both carry the same list of two
\* faces, the two faces of the list standing at different places.
C11_Witness ==
    /\ Compared(1)
    /\ Len(FacesIn(1)) = 2
    /\ FacesIn(1) = FacesIn(2)
    /\ MovedDramatically(FacesIn(1)[1], FacesIn(1)[2])

\* The running or just finished validate() has run the composition check of the
\* scene at position i; the scene's annotations are then the ones the check read.
CompositionChecked(i) ==
    /\ InRun
    /\ \E c \in 1..Len(calls) : calls[c] = <<"_validate_composition", scene_order[i]>>

\* The places in the result set of the composition issues of the scene at position i.
CompositionIssuesAt(i) ==
    {n \in 1..Len(results.issues) : results.issues[n].issue_id = <<"comp_thirds", scene_order[i]>>}

\* The presumed subject of the scene at position i: its first object of maximal area.
SubjectOf(i) ==
    LET objects == DetectedIn(i)
        area(k) == (objects[k].vertices[3].x - objects[k].vertices[1].x)
                       * (objects[k].vertices[3].y - objects[k].vertices[1].y)
    IN objects[CHOOSE k \in 1..Len(objects) :
                   \A j \in 1..Len(objects) :
                       area(j) <= area(k) /\ (j < k => area(j) < area(k))]

ImageWidth(i) == world[scenes[scene_order[i]].path].width

ImageHeight(i) == world[scenes[scene_order[i]].path].height

\* 240 times the pixel coordinates of the centre of the subject
SubjectX240(i) == (SubjectOf(i).vertices[1].x + SubjectOf(i).vertices[3].x) * ImageWidth(i)

SubjectY240(i) == (SubjectOf(i).vertices[1].y + SubjectOf(i).vertices[3].y) * ImageHeight(i)

\* The centre is at most a tenth of the width and of the height away from one of
\* the four thirds points.
SubjectWithinTenth(i) ==
    \E kx \in {1, 2}, ky \in {1, 2} :
        /\ Abs(3 * SubjectX240(i) - 240 * kx * ImageWidth(i)) <= 72 * ImageWidth(i)
        /\ Abs(3 * SubjectY240(i) - 240 * ky * ImageHeight(i)) <= 72 * ImageHeight(i)

\* The centre is less than a tenth of the width and of the height away from one
\* of the four thirds points.
SubjectStrictlyWithinTenth(i) ==
    \E kx \in {1, 2}, ky \in {1, 2} :
        /\ Abs(3 * SubjectX240(i) - 240 * kx * ImageWidth(i)) < 72 * ImageWidth(i)
        /\ Abs(3 * SubjectY240(i) - 240 * ky * ImageHeight(i)) < 72 * ImageHeight(i)

\* C12 (as claimed): for a scene with at least one object whose composition has
\* been checked, if the centre of the largest-area object lies within width/10
\* horizontally and height/10 vertically of one of the four thirds points there
\* is no composition issue for the scene; otherwise there is exactly one, of
\* Low severity, whose location equals the computed centre.
C12_IssueAtComputedCentre ==
    \A i \in 1..Len(scene_order) :
        (CompositionChecked(i) /\ DetectedIn(i) # <<>>) =>
            IF SubjectWithinTenth(i)
            THEN CompositionIssuesAt(i) = {}
            ELSE /\ Cardinality(CompositionIssuesAt(i)) = 1
                 /\ \A n \in CompositionIssuesAt(i) :
                        /\ results.issues[n].severity = "Low"
                        /\ 240 * results.issues[n].location[1] = SubjectX240(i)
                        /\ 240 * results.issues[n].location[2] = SubjectY240(i)

\* C12 (amended): for a scene with at least one object whose composition has
\* been checked, if the centre of the largest-area object lies less than width/10
\* horizontally and less than height/10 vertically away from one of the four
\* thirds points there is no composition issue for the scene; otherwise there is
\* exactly one, of Low severity, whose location is the computed centre with both
\* coordinates truncated to integers.
C12_IssueAtTruncatedCentre ==
    \A i \in 1..Len(scene_order) :
        (CompositionChecked(i) /\ DetectedIn(i) # <<>>) =>
            IF SubjectStrictlyWithinTenth(i)
            THEN CompositionIssuesAt(i) = {}
            ELSE /\ Cardinality(CompositionIssuesAt(i)) = 1
                 /\ \A n \in CompositionIssuesAt(i) :
                        /\ results.issues[n].severity = "Low"
                        /\ results.issues[n].issue_type = "Composition Rule of Thirds"
                        /\ results.issues[n].location =
                               <<SubjectX240(i) \div 240, SubjectY240(i) \div 240>>

\* C12 witness: a run has returned over a scene with two objects on the wide
\* image, whose larger object is the second one and has its centre exactly a
\* tenth of the width away from a thirds point and a fractional ordinate; the
\* issue is in the result set.
C12_Witness ==
    /\ RunReturned
    /\ CompositionChecked(1)
    /\ Len(DetectedIn(1)) = 2
    /\ SubjectOf(1) = DetectedIn(1)[2]
    /\ SubjectOf(1) # DetectedIn(1)[1]
    /\ ImageWidth(1) = 600
    /\ SubjectWithinTenth(1)
    /\ ~SubjectStrictlyWithinTenth(1)
    /\ SubjectY240(1) % 240 # 0
    /\ Cardinality(CompositionIssuesAt(1)) = 1

C14_SegmentsNumberedConsecutively ==
    \A k \in 1..Len(script_scenes) : script_scenes[k].scene_id[2] = k

\* A slugline starts at position p of the text: a line beginning with a slugline
\* token that is followed by a space and a location.
SluglineAt(text, p) ==
    /\ text[p] \in SlugTokens
    /\ p = 1 \/ text[p - 1] = "\n"
    /\ p + 2 <= Len(text)
    /\ text[p + 1] = " "
    /\ text[p + 2] \notin Whitespace

SluglinesOf(text) == {p \in 1..Len(text) : SluglineAt(text, p)}

\* The position of the i-th slugline of the text, and where its span ends: before
\* the next slugline, or with the text.
NthSlugline(text, i) ==
    CHOOSE p \in SluglinesOf(text) : Cardinality({q \in SluglinesOf(text) : q < p}) = i - 1

SluglineSpanEnd(text, i) ==
    IF i < Cardinality(SluglinesOf(text)) THEN NthSlugline(text, i + 1) - 1 ELSE Len(text)

\* C15: the two tiers are mutually exclusive (the segments of a script are all
\* slugline segments or all paragraph segments), and when the text contains at
\* least one slugline there is one segment per slugline, in text order, whose
\* content is the text from the start of its slugline up to the start of the
\* next slugline or the end of the text (surrounding whitespace trimmed).
\* (Fails: a slugline that is not separated by a blank line from the slugline
\* before it gets no segment of its own.)
C15_OneSegmentPerSlugline ==
    /\ \/ \A k \in 1..Len(script_scenes) : script_scenes[k].heading[1] \in SlugTokens
       \/ \A k \in 1..Len(script_scenes) : script_scenes[k].heading[1] = "Scene"
    /\ SluglinesOf(script_text) # {} =>
           /\ Len(script_scenes) = Cardinality(SluglinesOf(script_text))
           /\ \A i \in 1..Len(script_scenes) :
                  script_scenes[i].content =
                      Strip(SubSeq(script_text, NthSlugline(script_text, i),
                                   SluglineSpanEnd(script_text, i)))

\* The last call was a generate_storyboard over at least one segment.
StoryboardRun == pc = "idle" /\ ret.op = "generate_storyboard" /\ script_scenes # <<>>

\* What the shot breakdown of the segment at position j returned in that run.
ShotsOf(j) ==
    LET c == CHOOSE c \in 1..Len(calls) :
                 calls[c][1] = "_analyze_scene_for_shots" /\ calls[c][2] = j
    IN calls[c][3]

\* The answer is not a JSON array of shot descriptors, or there is no answer.
Malformed(response) ==
    \/ response.kind # "array"
    \/ \E k \in 1..Len(response.items) : ~response.items[k].complete

\* C16: in a generate_storyboard run, a segment whose generation call fails or
\* answers anything that is not a JSON array of shot descriptors has as its shot
\* list exactly one fallback shot of type WS and movement STATIC, the run
\* returns, and every other segment's shot list is the one its own answer
\* gives.  (Fails: a JSON object or string, and a JSON array holding elements
\* that are no shot descriptors, are returned as the shot list.)
C16_MalformedAnswerGivesFallback ==
    StoryboardRun =>
        /\ ret.status = "returned"
        /\ \A j \in 1..Len(script_scenes) :
               IF Malformed(ResponseTo(gen_world, j))
               THEN /\ ShotsOf(j).kind = "array"
                    /\ Len(ShotsOf(j).items) = 1
                    /\ ShotsOf(j).items[1].complete
                    /\ ShotsOf(j).items[1].shot_type = "WS"
                    /\ ShotsOf(j).items[1].camera_movement = "STATIC"
               ELSE ShotsOf(j) = ResponseTo(gen_world, j)

\* The frame generation of the k-th shot of the segment at position j succeeded
\* in the last run: the shot is a descriptor and its image was generated.
ShotSucceeded(j, k) ==
    /\ ShotsOf(j).items[k].complete
    /\ ShotsOf(j).items[k].description \notin gen_world.render_fails

SucceededShots ==
    {jk \in (1..Len(script_scenes)) \X (1..(MaxShots + 1)) :
        jk[2] <= Len(ShotsOf(jk[1]).items) /\ ShotSucceeded(jk[1], jk[2])}

\* The frame at place n is the frame of the k-th shot of the segment at position j.
FrameOf(n, j, k) ==
    /\ frames[n].frame_id = script_scenes[j].scene_id \o <<"shot", k>>
    /\ frames[n].scene_id = script_scenes[j].scene_id
    /\ frames[n].description = ShotsOf(j).items[k].description

\* C17: after a generate_storyboard run the frames are exactly the shots whose
\* frame generation succeeded, one frame per such shot, in segment order and,
\* within a segment, in shot order, the frame of the k-th shot of a segment
\* having the id {segment_id}_shot_{k}; a failed shot is skipped and prevents
\* no other frame.
C17_FramesAreSucceededShots ==
    (StoryboardRun /\ ret.status = "returned") =>
        /\ Len(frames) = Cardinality(SucceededShots)
        /\ \A jk \in SucceededShots : \E n \in 1..Len(frames) : FrameOf(n, jk[1], jk[2])
        /\ \A n \in 1..Len(frames) : \E jk \in SucceededShots : FrameOf(n, jk[1], jk[2])
        /\ \A n, m \in 1..Len(frames) :
               n < m =>
                   \E a, b \in SucceededShots :
                       /\ FrameOf(n, a[1], a[2])
                       /\ FrameOf(m, b[1], b[2])
                       /\ a[1] < b[1] \/ (a[1] = b[1] /\ a[2] < b[2])

\* C17 witness: a run has returned in which the image of the first shot of the
\* first segment failed; the frames are the one of its second shot and one of
\* the second segment.
C17_Witness ==
    /\ StoryboardRun
    /\ ret.status = "returned"
    /\ Len(script_scenes) = 2
    /\ Len(ShotsOf(1).items) = 2
    /\ ShotsOf(1).items[1].complete
    /\ ~ShotSucceeded(1, 1)
    /\ Len(frames) = 2
    /\ frames[1].frame_id = script_scenes[1].scene_id \o <<"shot", 2>>
    /\ frames[2].scene_id = script_scenes[2].scene_id

\* C18: a shot descriptor whose shot-type or camera-movement tag is outside the
\* enumerations is not rejected, its tag falling back to a default: every frame
\* carries a shot_type of the 14 SHOT_TYPES and a camera_movement of the 9
\* CAMERA_MOVEMENTS.  (Fails: the frame stores the tags of the descriptor as
\* they are.)
C18_FrameTagsWithinEnumerations ==
    \A n \in 1..Len(frames) :
        /\ frames[n].shot_type \in SHOT_TYPES
        /\ frames[n].camera_movement \in CAMERA_MOVEMENTS

\* A step that is a call of load_script.
LoadScriptStep == pc = "idle" /\ pc' = "idle" /\ ret'.op = "load_script"

\* The argument was supplied: it is neither None nor empty.
PathSupplied(script_path) == script_path # "None" /\ script_path # ""

TextSupplied(text_arg) == text_arg.given /\ Len(text_arg.text) > 0

\* The text occurs in the script as a contiguous part.
PartOf(text, script) ==
    \E a \in 1..(Len(script) + 1), b \in 0..Len(script) : text = SubSeq(script, a, b)

\* C19: load_script with both a script path and a script text, or with neither,
\* raises an input error and leaves the loaded script text and the segment list
\* unchanged; a load_script that succeeds replaces the segment list: the list
\* then holds segments of the new text only, each id once, and loading the same
\* source again leaves it as it is.
C19_LoadScriptInputErrors ==
    [][LoadScriptStep =>
          /\ (PathSupplied(ret'.args[1]) = TextSupplied(ret'.args[2])) =>
                 /\ ret'.status = "ValueError"
                 /\ script_text' = script_text
                 /\ script_scenes' = script_scenes
          /\ ret'.status = "returned" =>
                 /\ \A k \in 1..Len(script_scenes') :
                        PartOf(script_scenes'[k].content, script_text')
                 /\ \A k, l \in 1..Len(script_scenes') :
                        script_scenes'[k].scene_id = script_scenes'[l].scene_id => k = l
                 /\ (ret.op = "load_script" /\ ret.status = "returned" /\ ret'.args = ret.args)
                        => script_scenes' = script_scenes]_vars

\* C19 witness: load_script was called with both a path and a text on a
\* generator holding a script of two segments and its frames, and raised.
C19_Witness ==
    /\ pc = "idle"
    /\ ret.op = "load_script"
    /\ ret.status = "ValueError"
    /\ PathSupplied(ret.args[1])
    /\ TextSupplied(ret.args[2])
    /\ Len(script_scenes) = 2
    /\ script_text # ret.args[2].text
    /\ frames # <<>>

\* A step that is a call of generate_report or of generate_storyboard_document.
DocumentStep ==
    /\ pc = "idle"
    /\ pc' = "idle"
    /\ ret'.op \in {"generate_report", "generate_storyboard_document"}

\* C20: generate_report and generate_storyboard_document with a format token
\* other than 'pdf' and 'html' raise an input error, write nothing to the output
\* path, and change neither the validator's results nor the generator's frames.
C20_BadFormatWritesNothing ==
    [][(DocumentStep /\ ret'.args[2] \notin {"pdf", "html"})
           => /\ ret'.status = "ValueError"
              /\ written' = written
              /\ results' = results
              /\ frames' = frames]_vars

\* C20 witness: generate_storyboard_document has raised on the token 'docx' for
\* a path no file was written to, the generator holding frames, the validator
\* issues, and the other path holding a report.
C20_Witness ==
    /\ pc = "idle"
    /\ ret.op = "generate_storyboard_document"
    /\ ret.args[2] = "docx"
    /\ ret.status = "ValueError"
    /\ frames # <<>>
    /\ results.issues # <<>>
    /\ written[ret.args[1]] = NoFile
    /\ \E path \in OutputPaths : written[path].writer = "generate_report"

\* A step that is a call of export_to_timeline_assembler.
ExportStep == pc = "idle" /\ pc' = "idle" /\ ret'.op = "export_to_timeline_assembler"

\* The frames that are the first of their segment: one for each segment id
\* that owns at least one frame.
FirstFramesOfSegments ==
    {k \in 1..Len(frames) : \A l \in 1..(k - 1) : frames[l].scene_id # frames[k].scene_id}

\* C21: export_to_timeline_assembler returns a document that holds every frame,
\* in the order the frames were generated, with frame_count the number of frames
\* and scene_count the number of distinct segment ids owning at least one frame,
\* so that 1 <= scene_count <= frame_count; without frames it raises, returns no
\* document and writes no file.
C21_ExportCounts ==
    [][ExportStep =>
          IF frames = <<>>
          THEN /\ ret'.status = "ValueError"
               /\ export_data' = export_data
               /\ written' = written
          ELSE /\ ret'.status = "returned"
               /\ Len(export_data'.frames) = Len(frames)
               /\ \A k \in 1..Len(frames) :
                      /\ export_data'.frames[k].frame_id = frames[k].frame_id
                      /\ export_data'.frames[k].scene_id = frames[k].scene_id
                      /\ export_data'.frames[k].description = frames[k].description
                      /\ export_data'.frames[k].shot_type = frames[k].shot_type
                      /\ export_data'.frames[k].camera_movement = frames[k].camera_movement
               /\ export_data'.metadata.frame_count = Len(frames)
               /\ export_data'.metadata.scene_count = Cardinality(FirstFramesOfSegments)
               /\ 1 <= export_data'.metadata.scene_count
               /\ export_data'.metadata.scene_count <= export_data'.metadata.frame_count
               /\ frames' = frames]_vars

\* C21 witness: an export has returned the document of a storyboard of two
\* frames of the second of two segments, the first segment owning no frame.
C21_Witness ==
    /\ pc = "idle"
    /\ ret.op = "export_to_timeline_assembler"
    /\ ret.status = "returned"
    /\ Len(script_scenes) = 2
    /\ Len(frames) = 2
    /\ frames[1].scene_id = script_scenes[2].scene_id
    /\ frames[2].scene_id = script_scenes[2].scene_id
    /\ export_data.metadata.scene_count = 1
    /\ export_data.metadata.frame_count = 2

\* The places in the result set of the Medium character-position issues of the
\* pair at positions i, i + 1.
CharacterPositionIssuesAt(i) ==
    {n \in 1..Len(results.issues) :
        /\ results.issues[n].issue_id[1] = "cont_face_pos"
        /\ results.issues[n].severity = "Medium"
        /\ results.issues[n].scenes = <<scene_order[i], scene_order[i + 1]>>}

\* Four times the x of the centroid of the k-th face of the scene at position i,
\* in the pixels of the scene's image.
CentroidX4(i, k) ==
    LET v == FacesIn(i)[k].vertices IN v[1].x + v[2].x + v[3].x + v[4].x

\* The centroids of the k-th faces of the pair are horizontally more than 0.4
\* apart, each x taken as a fraction of the width of its image: the inequality
\* |c1 / w1 - c2 / w2| > 0.4 multiplied by 20 * w1 * w2.
DisplacedAt(i, k) ==
    5 * Abs(CentroidX4(i, k) * ImageWidth(i + 1) - CentroidX4(i + 1, k) * ImageWidth(i))
        > 8 * ImageWidth(i) * ImageWidth(i + 1)

\* C22: for every compared adjacent pair with equal, non-zero face counts, the
\* faces being paired by index, the number of Medium character-position issues
\* of the pair is the number of indices at which the centroids of the two faces
\* (the average of the four vertices' x, in normalized coordinates) are
\* horizontally more than 0.4, that is 40% of the image width, apart; a
\* displacement of exactly 0.4 and a vertical displacement count for nothing.
\* (Fails: the centroids compared are in pixels, so a face that has moved by two
\* pixels is reported.)
C22_DisplacedFacesCounted ==
    \A i \in 1..(Len(scene_order) - 1) :
        (Compared(i) /\ FacesIn(i) # <<>> /\ Len(FacesIn(i)) = Len(FacesIn(i + 1)))
            => Cardinality(CharacterPositionIssuesAt(i))
                   = Cardinality({k \in 1..Len(FacesIn(i)) : DisplacedAt(i, k)})

\* The area of the bounding box of the k-th object of the scene at position i.
AreaIn(i, k) ==
    LET v == DetectedIn(i)[k].vertices IN (v[3].x - v[1].x) * (v[3].y - v[1].y)

\* The places in the detection list of the objects of maximal area.
MaximalObjects(i) ==
    {k \in 1..Len(DetectedIn(i)) : \A j \in 1..Len(DetectedIn(i)) : AreaIn(i, j) <= AreaIn(i, k)}

\* The first of them.
FirstMaximal(i) == CHOOSE k \in MaximalObjects(i) : \A j \in MaximalObjects(i) : k <= j

\* 240 times the pixel coordinates of the centre of the k-th object.
ObjectX240(i, k) ==
    (DetectedIn(i)[k].vertices[1].x + DetectedIn(i)[k].vertices[3].x) * ImageWidth(i)

ObjectY240(i, k) ==
    (DetectedIn(i)[k].vertices[1].y + DetectedIn(i)[k].vertices[3].y) * ImageHeight(i)

\* The centre of the k-th object is less than a tenth of the width and of the
\* height away from one of the four thirds points.
ObjectOnThirds(i, k) ==
    \E kx \in {1, 2}, ky \in {1, 2} :
        /\ Abs(3 * ObjectX240(i, k) - 240 * kx * ImageWidth(i)) < 72 * ImageWidth(i)
        /\ Abs(3 * ObjectY240(i, k) - 240 * ky * ImageHeight(i)) < 72 * ImageHeight(i)

\* C23: when several detected objects of a scene have exactly the same maximal
\* bounding-box area, the composition rule takes the one that comes first in the
\* detection list as the subject: the scene has a composition issue exactly if
\* that object is off the thirds points, and the issue is located at its centre.
C23_FirstOfEqualAreasIsSubject ==
    \A i \in 1..Len(scene_order) :
        (CompositionChecked(i) /\ Cardinality(MaximalObjects(i)) >= 2) =>
            IF ObjectOnThirds(i, FirstMaximal(i))
            THEN CompositionIssuesAt(i) = {}
            ELSE /\ Cardinality(CompositionIssuesAt(i)) = 1
                 /\ \A n \in CompositionIssuesAt(i) :
                        results.issues[n].location =
                            <<ObjectX240(i, FirstMaximal(i)) \div 240,
                              ObjectY240(i, FirstMaximal(i)) \div 240>>

\* C23 witness: a run has returned over a scene with two objects of the same
\* area, the first off the thirds points and the second on one; the issue of the
\* first is in the result set.
C23_Witness ==
    /\ RunReturned
    /\ CompositionChecked(1)
    /\ Len(DetectedIn(1)) = 2
    /\ MaximalObjects(1) = {1, 2}
    /\ ~ObjectOnThirds(1, 1)
    /\ ObjectOnThirds(1, 2)
    /\ Cardinality(CompositionIssuesAt(1)) = 1

\* The ids of the scene order sequence.
OrderedIds == {scene_order[a] : a \in 1..Len(scene_order)}

\* C24: whatever add_scene calls (returning or raising) and validate() calls
\* were made, the scene order sequence holds no id twice and its ids are the
\* keys of the scene record map; so the scene_count recorded by a validate() run
\* is the length of the scene order sequence.
C24_OrderMatchesSceneMap ==
    /\ \A a, b \in 1..Len(scene_order) : scene_order[a] = scene_order[b] => a = b
    /\ OrderedIds = DOMAIN scenes
    /\ (pc # "idle" \/ RunEnded) => results.scene_count = Len(scene_order)

\* C24 witness: after a validate() run over two scenes of different files, an
\* add_scene for one of their ids has raised.
C24_Witness ==
    /\ pc = "idle"
    /\ ret.op = "add_scene"
    /\ ret.status = "FileNotFoundError"
    /\ ret.args[2] \in DOMAIN scenes
    /\ Len(scene_order) = 2
    /\ scenes[scene_order[1]].path # scenes[scene_order[2]].path
    /\ results.scene_count = 2

\* The place of a scene id in the scene order sequence.
PositionOf(scene_id) == CHOOSE a \in 1..Len(scene_order) : scene_order[a] = scene_id

\* The issue at place n of the result set is a composition issue.
IsComposition(n) == results.issues[n].issue_id[1] = "comp_thirds"

\* Where the issue at place n belongs: composition issues (0) before continuity
\* issues (1), then the position of the scene, or of the first scene of the
\* pair, then object-missing (0) before character-position (1).
GroupOf(n) ==
    LET issue == results.issues[n]
    IN IF IsComposition(n) THEN <<0, PositionOf(issue.scenes[1]), 0>>
       ELSE <<1, PositionOf(issue.scenes[1]),
              IF issue.issue_id[1] = "cont_obj" THEN 0 ELSE 1>>

\* Group g is not after group h.
NotAfter(g, h) ==
    \/ g[1] < h[1]
    \/ g[1] = h[1] /\ g[2] < h[2]
    \/ g[1] = h[1] /\ g[2] = h[2] /\ g[3] <= h[3]

\* The result set is in the order of the scenes and of the adjacent pairs.
IssuesInOrder ==
    /\ \A n \in 1..Len(results.issues) :
           /\ results.issues[n].issue_id[1] \in {"comp_thirds", "cont_obj", "cont_face_pos"}
           /\ IF IsComposition(n)
              THEN Len(results.issues[n].scenes) = 1
              ELSE /\ Len(results.issues[n].scenes) = 2
                   /\ PositionOf(results.issues[n].scenes[2])
                          = PositionOf(results.issues[n].scenes[1]) + 1
    /\ \A n, m \in 1..Len(results.issues) :
           n < m => /\ NotAfter(GroupOf(n), GroupOf(m))
                    /\ (IsComposition(n) /\ IsComposition(m)) => GroupOf(n) # GroupOf(m)

\* C25: in the result set of a validate() run the issue list only grows while
\* the run lasts, and every composition issue precedes every continuity issue;
\* the composition issues are in the order the scenes were inserted, at most one
\* for a scene, and the continuity issues are grouped by adjacent pair, the
\* pairs from left to right, the object-missing issues of a pair before its
\* character-position issues.
C25_IssuesGrowInOrder ==
    /\ [](IssuesInOrder)
    /\ [][pc # "idle" => IsPrefix(results.issues, results'.issues)]_vars

\* C25 witness: a run over three scenes has returned with composition issues of
\* the first and of the third scene and, for each of the two pairs, an
\* object-missing and a character-position issue.
C25_Witness ==
    /\ RunReturned
    /\ Len(scene_order) = 3
    /\ Len(results.issues) = 6
    /\ GroupOf(1) = <<0, 1, 0>>
    /\ GroupOf(2) = <<0, 3, 0>>
    /\ GroupOf(3) = <<1, 1, 0>>
    /\ GroupOf(4) = <<1, 1, 1>>
    /\ GroupOf(5) = <<1, 2, 0>>
    /\ GroupOf(6) = <<1, 2, 1>>

====
